---- MODULE Spec2Model ----
(***************************************************************************)
(* The training harness of cv-07_image-classification/train.py: the entry  *)
(* point's dispatch on args.mode and the three training loops (train,      *)
(* train_with_fold, train_with_cutmix) with their checkpoint writes and    *)
(* the early-stopping check of train.                                      *)
(*                                                                         *)
(* Numbers: a loss is an integer number of hundredths; a quotient that the *)
(* code computes as a float (val_loss, val_acc) is kept as the pair        *)
(* <<numerator, denominator>> and compared by cross-multiplication, and    *)
(* np.inf is the pair <<1, 0>>.                                            *)
(***************************************************************************)
EXTENDS Integers, Sequences, FiniteSets, TLC

\* ---------------------------------------------------------------- bounds
MaxEpochs == 3
MaxPatience == 2
MaxFolds == 3
MaxN == 5

\* ------------------------------------------------------- program constants
GridN == 16
NumFoldsDefault == 5

VARIABLES
    args,            \* argparse.Namespace: mode, epochs, early_stopping, batch sizes
    dataset,         \* the dataset: its length, its labels, the seeded shuffle of its indices
    num_folds,       \* parameter num_folds of train_with_fold
    oracle,          \* what the network can answer on one validation batch
    pc,              \* position of the program
    fold_model_dir,  \* directory of train_with_fold that holds the folds' directories
    save_dir,        \* directory returned by increment_path for the run / fold
    fs,              \* the file system: path -> content
    splitted_fold,   \* the (train_ids, val_ids) pairs of the fold generator, if bound
    fold,            \* loop variable of "for fold, (train_ids, val_ids)"
    train_set,       \* number of examples behind train_loader
    val_set,         \* number of examples behind val_loader
    epoch,           \* loop variable of "for epoch in range(args.epochs)"
    idx,             \* batches of the current loader consumed in this phase
    model,           \* [id, params, training]
    optimizer,       \* [zero_grad, step, sched]: calls made on optimizer / scheduler
    val_loss_items,
    val_acc_items,
    val_seen,        \* [examples, correct] of the validation batches consumed
    val_loss,
    val_acc,
    best_val_acc,
    best_val_loss,
    early_stopping,  \* the EarlyStopping object of train
    log              \* one record per finished validation pass of the run / fold

vars == <<args, dataset, num_folds, oracle, pc, fold_model_dir, save_dir, fs, splitted_fold, fold,
          train_set, val_set, epoch, idx, model, optimizer, val_loss_items,
          val_acc_items, val_seen, val_loss, val_acc, best_val_acc, best_val_loss,
          early_stopping, log>>

\* ----------------------------------------------------------- arithmetic
NoRat == <<>>
NoDir == <<>>
Inf == <<1, 0>>
Rat(n, d) == <<n, d>>
RLess(a, b) == a[1] * b[2] < b[1] * a[2]
REq(a, b) == a[1] * b[2] = b[1] * a[2]

RECURSIVE Sum(_)
Sum(s) == IF s = <<>> THEN 0 ELSE Head(s) + Sum(Tail(s))

SetMax(S) == CHOOSE x \in S : \A y \in S : y <= x

\* min(best_val_loss, val_loss): Python's min keeps its first argument on a tie
MinLast(best, loss) == loss
PyMin(best, loss) == IF RLess(loss, best) THEN loss ELSE best

\* len(DataLoader(..., batch_size=b, drop_last=True)) over n examples
LoaderLen(n, b) == n \div b

\* int(len(dataset) * (1 / num_folds)).  For num_folds <= 12 and
\* len(dataset) <= 2000 the double product truncates to the integer quotient.
IntMulRecip(n, k) == n \div k

\* ----------------------------------------------------------- file system
BestPth == "best.pth"
LastPth == "last.pth"
ConfigJson == "config.json"
Cwd == <<<<".", 0>>>>
ModelDir == <<<<"model", 0>>>>

Write(f, dir, file, content) ==
    [p \in (DOMAIN f) \cup {<<dir, file>>} |->
        IF p = <<dir, file>> THEN content ELSE f[p]]

IsPrefix(a, b) == Len(a) <= Len(b) /\ SubSeq(b, 1, Len(a)) = a

\* a directory exists once a file was written in it or below it
Exists(f, dir) == \E p \in DOMAIN f : IsPrefix(dir, p[1])

\* A directory name is <<stem, n>>: the stem followed by the digits of n, or
\* by nothing when n = 0.  A path is the sequence of its directory names.
Child(parent, stem, n) == Append(parent, <<stem, n>>)

\* the names used here, as strings: "fold_model" ends with "model"
EndsWith(s, stem) == s = stem \/ (s = "fold_model" /\ stem = "model")

SetMin(S) == CHOOSE x \in S : \A y \in S : x <= y

\* re.search(stem + r"(\d+)", d) scans the whole path d from the left: the
\* match is in the first directory name of d that has the stem right before
\* its digits, whether that is the sibling's own name or a directory above it
Matching(d, stem) == {c \in 1..Len(d) : d[c][2] > 0 /\ EndsWith(d[c][1], stem)}
MatchedDigits(d, stem) == d[SetMin(Matching(d, stem))][2]

\* glob(f"{path}*"): the entries of the parent whose name starts with the stem
Siblings(f, parent, stem) ==
    {SubSeq(p[1], 1, Len(parent) + 1) :
        p \in {q \in DOMAIN f : /\ IsPrefix(parent, q[1])
                                /\ Len(q[1]) > Len(parent)
                                /\ q[1][Len(parent) + 1][1] = stem}}

increment_path(f, parent, stem) ==
    IF ~Exists(f, Child(parent, stem, 0))
    THEN Child(parent, stem, 0)
    ELSE LET dirs == Siblings(f, parent, stem)
             i == {MatchedDigits(d, stem) : d \in {x \in dirs : Matching(x, stem) # {}}}
         IN  Child(parent, stem, IF i # {} THEN SetMax(i) + 1 ELSE 2)

\* ---------------------------------------------------------- EarlyStopping
EarlyStopping(patience) ==
    [patience |-> patience, counter |-> 0, best_loss |-> Inf,
     early_stop |-> FALSE, calls |-> 0]

EarlyStoppingCall(es, loss) ==
    IF RLess(loss, es.best_loss)
    THEN [es EXCEPT !.best_loss = loss, !.counter = 0, !.calls = @ + 1]
    ELSE [es EXCEPT !.counter = @ + 1, !.calls = @ + 1,
                    !.early_stop = (es.counter + 1 >= es.patience)]

\* ------------------------------------------------------------- the inputs
Modes == {"plain", "k", "s", "g", "cutmix", "x"}

\* dataset.split_dataset(): the 80/20 split of the plain and CutMix runs
SplitDataset(n) == [train |-> n - (n \div 5), val |-> n \div 5]

Identity(n) == [j \in 1..n |-> j - 1]
Shuffles(n) ==
    {p \in [1..n -> 0..(n - 1)] : \A a, b \in 1..n : p[a] = p[b] => a = b}

\* ------------------------------------------------------------ fold planner
\* KFold(n_splits=k, shuffle=True, random_state=seed).split(dataset): the
\* first n % k folds hold n // k + 1 indices, the others n // k; fold i tests
\* the i-th block of the shuffled indices and trains on the rest.
FoldSize(n, k, i) == (n \div k) + (IF i < n % k THEN 1 ELSE 0)

RECURSIVE FoldStart(_, _, _)
FoldStart(n, k, i) ==
    IF i = 0 THEN 0 ELSE FoldStart(n, k, i - 1) + FoldSize(n, k, i - 1)

KFoldTestOverlap(n, k, shuffled, i) ==
    {shuffled[j] : j \in (FoldStart(n, k, i) + 1)..
                         (FoldStart(n, k, i) + FoldSize(n, k, i) + (IF i + 1 < k THEN 1 ELSE 0))}
KFoldTest(n, k, shuffled, i) ==
    {shuffled[j] : j \in (FoldStart(n, k, i) + 1)..(FoldStart(n, k, i) + FoldSize(n, k, i))}

KFoldSplit(n, k, shuffled) ==
    [i \in 1..k |->
        [train_ids |-> (0..(n - 1)) \ KFoldTest(n, k, shuffled, i - 1),
         val_ids   |-> KFoldTest(n, k, shuffled, i - 1)]]

\* StratifiedKFold(n_splits=k, shuffle=True, random_state=seed).split(dataset, gt):
\* the examples are sorted by class, position p of the sorted order is dealt to
\* fold p % k, which fixes how many examples of each class a fold tests; the
\* examples of a class then take those fold numbers in index order.
ClassStart(labels, n, c) == Cardinality({j \in 0..(n - 1) : labels[j] < c})
ClassCount(labels, n, c) == Cardinality({j \in 0..(n - 1) : labels[j] = c})
InClassRank(labels, n, i) ==
    Cardinality({j \in 0..(n - 1) : labels[j] = labels[i] /\ j < i})
Allocation(labels, n, k, c, f) ==
    Cardinality({p \in ClassStart(labels, n, c)..
                       (ClassStart(labels, n, c) + ClassCount(labels, n, c) - 1) :
                    p % k = f})
RECURSIVE AllocatedBefore(_, _, _, _, _)
AllocatedBefore(labels, n, k, c, f) ==
    IF f = 0 THEN 0
    ELSE AllocatedBefore(labels, n, k, c, f - 1) + Allocation(labels, n, k, c, f - 1)
StratifiedTest(labels, n, k, f) ==
    {i \in 0..(n - 1) :
        /\ AllocatedBefore(labels, n, k, labels[i], f) <= InClassRank(labels, n, i)
        /\ InClassRank(labels, n, i) < AllocatedBefore(labels, n, k, labels[i], f + 1)}
StratifiedKFoldSplit(labels, n, k) ==
    [i \in 1..k |->
        [train_ids |-> (0..(n - 1)) \ StratifiedTest(labels, n, k, i - 1),
         val_ids   |-> StratifiedTest(labels, n, k, i - 1)]]

\* ------------------------------------------------------------------ runs
Args(mode, epochs, patience, bs, vbs) ==
    [mode |-> mode, epochs |-> epochs, early_stopping |-> patience,
     batch_size |-> bs, valid_batch_size |-> vbs, name |-> "exp"]

Dataset(n, shuffled) ==
    [len |-> n, labels |-> [i \in 0..(n - 1) |-> i % 2], shuffled |-> shuffled]

\* a run: the command line, the dataset, the function the interpreter enters
\* ("main" is the script's entry point) and the files found on disk
Run(a, n, k, o) ==
    [args |-> a, n |-> n, k |-> k, oracle |-> o, entry |-> "main", files |-> <<>>]

GeneralOracle == [corrects |-> {0, 8, 16}, losses |-> {1, 2}]

PlainRuns ==
    {Run(Args("plain", e, p, 40, 16), 100, NumFoldsDefault, GeneralOracle) :
        e \in 1..MaxEpochs, p \in (-1)..MaxPatience}
    \cup
    {Run(Args("plain", e, p, 64, 16), 160, NumFoldsDefault, GeneralOracle) :
        e \in 1..2, p \in 0..1}
    \cup
    {Run(Args("plain", 1, 0, 40, 8), 100, NumFoldsDefault, GeneralOracle)}

CutmixRuns ==
    {Run(Args("cutmix", e, p, 40, 16), 100, NumFoldsDefault, GeneralOracle) :
        e \in 1..MaxEpochs, p \in 0..1}

FoldRuns ==
    {Run(Args(m, e, p, 16, 16), n, k, GeneralOracle) :
        m \in {"k", "s"}, e \in 1..2, p \in 0..1, n \in {64, 65}, k \in 2..MaxFolds}
    \cup
    {Run(Args("k", 3, 1, 16, 16), 65, 3, GeneralOracle)}
    \cup
    {Run(Args("g", 1, 0, 16, 16), 64, NumFoldsDefault, GeneralOracle)}

\* 63 examples in 2 folds: fold 0 validates on 32 examples, two full batches
UnevenFoldRuns ==
    {Run(Args("k", 1, 0, 16, 16), 63, 2, GeneralOracle)}

OtherRuns ==
    {Run(Args("x", 1, 0, 40, 16), 100, NumFoldsDefault, GeneralOracle)}

\* train_with_fold called by an importer of the module, not by the entry point
DirectRuns ==
    {[Run(Args("x", 1, 0, 16, 16), 64, NumFoldsDefault, GeneralOracle)
        EXCEPT !.entry = "train_with_fold"]}

\* --mode k --name model, started when an earlier fold run has left
\* model/fold_model behind
EarlierFoldRun ==
    Write(<<>>, Child(Child(ModelDir, "fold_model", 0), "model", 0), ConfigJson,
          [Args("k", 1, 0, 16, 16) EXCEPT !.name = "model"])
RerunRuns ==
    {[Run([Args("k", 1, 0, 16, 16) EXCEPT !.name = "model"], 64, MaxFolds, GeneralOracle)
        EXCEPT !.files = EarlierFoldRun]}

\* the accuracy sequence 0.10, 0.15, 0.15, 0.20, 0.18 on 100 validation examples
AccuracyRuns ==
    {Run(Args("plain", 5, 0, 400, 100), 500, NumFoldsDefault,
         [corrects |-> {10, 15, 18, 20}, losses |-> {50}])}

\* the loss sequence 0.9, 0.8, 0.85, 0.86, 0.87 under patience 2
LossRuns ==
    {Run(Args("plain", 5, 2, 400, 100), 500, NumFoldsDefault,
         [corrects |-> {10}, losses |-> {80, 85, 86, 87, 90}])}

Runs == PlainRuns \cup CutmixRuns \cup FoldRuns \cup OtherRuns \cup DirectRuns
            \cup RerunRuns \cup UnevenFoldRuns
            \cup AccuracyRuns \cup LossRuns

Unbound == [bound |-> FALSE, pairs |-> <<>>]
Bound(pairs) == [bound |-> TRUE, pairs |-> pairs]
NoStopper == [patience |-> 0, counter |-> 0, best_loss |-> Inf,
              early_stop |-> FALSE, calls |-> 0]
NoModel == [id |-> 0, params |-> 0, training |-> TRUE]
NoOptimizer == [zero_grad |-> 0, step |-> 0, sched |-> 0]

InitRest ==
    /\ fold_model_dir = NoDir
    /\ save_dir = NoDir
    /\ splitted_fold = Unbound
    /\ fold = -1
    /\ train_set = 0
    /\ val_set = 0
    /\ epoch = 0
    /\ idx = 0
    /\ model = NoModel
    /\ optimizer = NoOptimizer
    /\ val_loss_items = <<>>
    /\ val_acc_items = <<>>
    /\ val_seen = [examples |-> 0, correct |-> 0]
    /\ val_loss = NoRat
    /\ val_acc = NoRat
    /\ best_val_acc = NoRat
    /\ best_val_loss = NoRat
    /\ early_stopping = NoStopper
    /\ log = <<>>

Init ==
    /\ \E r \in Runs :
          /\ args = r.args
          /\ dataset = Dataset(r.n, Identity(r.n))
          /\ num_folds = r.k
          /\ oracle = r.oracle
          /\ pc = r.entry
          /\ fs = r.files
    /\ InitRest

\* ------------------------------------------------------------ entry point
main_Dispatch ==
    /\ pc = "main"
    /\ pc' = CASE args.mode = "plain" -> "train"
               [] args.mode \in {"k", "s", "g"} -> "train_with_fold"
               [] args.mode = "cutmix" -> "train_with_cutmix"
               [] OTHER -> "exit"
    /\ UNCHANGED <<args, dataset, num_folds, oracle, fold_model_dir, save_dir, fs, splitted_fold,
                   fold, train_set, val_set, epoch, idx, model, optimizer,
                   val_loss_items, val_acc_items, val_seen, val_loss, val_acc,
                   best_val_acc, best_val_loss, early_stopping, log>>

\* ------------------------------------------------- pieces of the epoch loop
\* model = model_module(num_classes=num_classes): a new object, new parameters
SameModel(m) == [m EXCEPT !.training = TRUE]
NewModel(m) == [id |-> m.id + 1, params |-> 0, training |-> TRUE]
StateDict(m) == [id |-> m.id, params |-> m.params]

\* optimizer.zero_grad(); ...; loss.backward(); optimizer.step()
StepTwice(o) == [o EXCEPT !.zero_grad = @ + 1, !.step = @ + 2]
OptimizerStep(o) == [o EXCEPT !.zero_grad = @ + 1, !.step = @ + 1]

\* val_loss = np.sum(val_loss_items) / len(val_loader)
ValLossPartial(items, batches) == Rat(Sum(SubSeq(items, 1, Len(items) - 1)), batches)
ValLoss(items, batches) == Rat(Sum(items), batches)

\* if val_acc > best_val_acc
ImprovedOrTied(acc, best) == ~RLess(acc, best)
Improved(acc, best) == RLess(best, acc)

\* torch.save(best.pth) when improved; torch.save(last.pth)
SaveBestElseLast(f, dir, state, improved) ==
    IF improved THEN Write(f, dir, BestPth, state) ELSE Write(f, dir, LastPth, state)
SaveCheckpoints(f, dir, state, improved) ==
    Write(IF improved THEN Write(f, dir, BestPth, state) ELSE f, dir, LastPth, state)

Wrote(f, dir, file, state) ==
    <<dir, file>> \in DOMAIN f /\ f[<<dir, file>>] = state

LogEntry(f, dir, acc, loss, seen, state) ==
    [epoch |-> epoch, val_acc |-> acc, val_loss |-> loss,
     correct |-> seen.correct, scored |-> seen.examples,
     best |-> Wrote(f, dir, BestPth, state), last |-> Wrote(f, dir, LastPth, state),
     state |-> state]

\* -------------------------------------------------------------- train()
\* EarlyStopping(patience = args.early_stopping, verbose = True)
train_EarlyStoppingOffByOne(a) == EarlyStopping(a.early_stopping + 1)
train_EarlyStopping(a) == EarlyStopping(a.early_stopping)

\* early_stopping(val_loss, model): the value the stopper is given
train_MonitoredAccuracy(loss, acc) == acc
train_Monitored(loss, acc) == loss

\* if early_stopping.early_stop: break
train_NeverBreak(es) == FALSE
train_Break(es) == es.early_stop

train_Setup ==
    /\ pc = "train"
    /\ early_stopping' = train_EarlyStopping(args)
    /\ save_dir' = increment_path(fs, ModelDir, args.name)
    /\ train_set' = SplitDataset(dataset.len).train
    /\ val_set' = SplitDataset(dataset.len).val
    /\ model' = NewModel(model)
    /\ optimizer' = NoOptimizer
    /\ fs' = Write(fs, save_dir', ConfigJson, args)
    /\ best_val_acc' = Rat(0, 1)
    /\ best_val_loss' = Inf
    /\ epoch' = 0
    /\ pc' = "train.epoch"
    /\ UNCHANGED <<args, dataset, num_folds, oracle, fold_model_dir, splitted_fold, fold,
                 idx, val_loss_items, val_acc_items, val_seen,
                 val_loss, val_acc, log>>

train_Epoch ==
    /\ pc = "train.epoch"
    /\ IF epoch < args.epochs
       THEN /\ model' = [model EXCEPT !.training = TRUE]
            /\ idx' = 0
            /\ pc' = "train.batch"
       ELSE /\ pc' = "exit"
            /\ UNCHANGED <<model, idx>>
    /\ UNCHANGED <<args, dataset, num_folds, oracle, fold_model_dir, save_dir, fs,
                 splitted_fold, fold, train_set, val_set, epoch,
                 optimizer, val_loss_items, val_acc_items, val_seen,
                 val_loss, val_acc, best_val_acc, best_val_loss,
                 early_stopping, log>>

train_Batch ==
    /\ pc = "train.batch"
    /\ idx < LoaderLen(train_set, args.batch_size)
    /\ optimizer' = OptimizerStep(optimizer)
    /\ model' = [model EXCEPT !.params = @ + (optimizer'.step - optimizer.step)]
    /\ idx' = idx + 1
    /\ UNCHANGED <<args, dataset, num_folds, oracle, pc, fold_model_dir, save_dir, fs,
                 splitted_fold, fold, train_set, val_set, epoch,
                 val_loss_items, val_acc_items, val_seen, val_loss,
                 val_acc, best_val_acc, best_val_loss,
                 early_stopping, log>>

train_SchedulerStep ==
    /\ pc = "train.batch"
    /\ idx = LoaderLen(train_set, args.batch_size)
    /\ optimizer' = [optimizer EXCEPT !.sched = @ + 1]
    /\ model' = [model EXCEPT !.training = FALSE]
    /\ val_loss_items' = <<>>
    /\ val_acc_items' = <<>>
    /\ val_seen' = [examples |-> 0, correct |-> 0]
    /\ idx' = 0
    /\ pc' = "train.val"
    /\ UNCHANGED <<args, dataset, num_folds, oracle, fold_model_dir, save_dir, fs,
                 splitted_fold, fold, train_set, val_set, epoch,
                 val_loss, val_acc, best_val_acc, best_val_loss,
                 early_stopping, log>>

train_ValBatch ==
    /\ pc = "train.val"
    /\ idx < LoaderLen(val_set, args.valid_batch_size)
    /\ \E acc_item \in oracle.corrects, loss_item \in oracle.losses :
          /\ acc_item <= args.valid_batch_size
          /\ val_loss_items' = Append(val_loss_items, loss_item)
          /\ val_acc_items' = Append(val_acc_items, acc_item)
          /\ val_seen' = [examples |-> val_seen.examples + args.valid_batch_size,
                          correct |-> val_seen.correct + acc_item]
    /\ IF idx = 0 /\ ~(GridN <= args.valid_batch_size)
       THEN pc' = "AssertionError" /\ idx' = idx
       ELSE pc' = pc /\ idx' = idx + 1
    /\ UNCHANGED <<args, dataset, num_folds, oracle, fold_model_dir, save_dir, fs,
                 splitted_fold, fold, train_set, val_set, epoch,
                 model, optimizer, val_loss, val_acc, best_val_acc,
                 best_val_loss, early_stopping, log>>

train_Checkpoint ==
    /\ pc = "train.val"
    /\ idx = LoaderLen(val_set, args.valid_batch_size)
    /\ val_loss' = ValLoss(val_loss_items, LoaderLen(val_set, args.valid_batch_size))
    /\ val_acc' = Rat(Sum(val_acc_items), val_set)
    /\ best_val_loss' = PyMin(best_val_loss, val_loss')
    /\ fs' = SaveCheckpoints(fs, save_dir, StateDict(model), Improved(val_acc', best_val_acc))
    /\ best_val_acc' = IF Improved(val_acc', best_val_acc) THEN val_acc' ELSE best_val_acc
    /\ log' = Append(log, LogEntry(fs', save_dir, val_acc', val_loss', val_seen, StateDict(model)))
    /\ pc' = "train.stop"
    /\ UNCHANGED <<args, dataset, num_folds, oracle, fold_model_dir, save_dir,
                 splitted_fold, fold, train_set, val_set, epoch, idx,
                 model, optimizer, val_loss_items, val_acc_items,
                 val_seen, early_stopping>>

train_EarlyStop ==
    /\ pc = "train.stop"
    /\ IF args.early_stopping > 0
       THEN /\ early_stopping' =
                  EarlyStoppingCall(early_stopping, train_Monitored(val_loss, val_acc))
            /\ IF train_Break(early_stopping')
               THEN pc' = "exit" /\ epoch' = epoch
               ELSE pc' = "train.epoch" /\ epoch' = epoch + 1
       ELSE /\ early_stopping' = early_stopping
            /\ pc' = "train.epoch"
            /\ epoch' = epoch + 1
    /\ UNCHANGED <<args, dataset, num_folds, oracle, fold_model_dir, save_dir, fs,
                 splitted_fold, fold, train_set, val_set, idx, model,
                 optimizer, val_loss_items, val_acc_items, val_seen,
                 val_loss, val_acc, best_val_acc, best_val_loss, log>>

\* ---------------------------------------------------- train_with_fold()
\* val_acc = np.sum(val_acc_items) / int(len(dataset) * (1 / num_folds))
fold_ValAcc(items, n, k) == Rat(Sum(items), IntMulRecip(n, k))

fold_Create ==
    /\ pc = "train_with_fold"
    /\ IF args.mode = "k"
       THEN /\ splitted_fold' = Bound(KFoldSplit(dataset.len, num_folds, dataset.shuffled))
            /\ pc' = "fold.next"
       ELSE IF args.mode = "s"
       THEN /\ splitted_fold' =
                 Bound(StratifiedKFoldSplit(dataset.labels, dataset.len, num_folds))
            /\ pc' = "fold.next"
       ELSE IF args.mode = "g"
       THEN /\ splitted_fold' = splitted_fold
            /\ pc' = "fold.next"
       ELSE /\ splitted_fold' = splitted_fold
            /\ pc' = "SystemExit"
    /\ fold_model_dir' = IF pc' = "SystemExit" THEN fold_model_dir
                         ELSE increment_path(fs, ModelDir, "fold_model")
    /\ UNCHANGED <<args, dataset, num_folds, oracle, save_dir, fs, fold,
                 train_set, val_set, epoch, idx, model, optimizer,
                 val_loss_items, val_acc_items, val_seen, val_loss,
                 val_acc, best_val_acc, best_val_loss,
                 early_stopping, log>>

fold_Next ==
    /\ pc = "fold.next"
    /\ IF ~splitted_fold.bound
       THEN pc' = "NameError" /\ fold' = fold
       ELSE LET i == fold + 1
            IN  IF i < Len(splitted_fold.pairs)
                THEN pc' = "fold.setup" /\ fold' = i
                ELSE pc' = "exit" /\ fold' = fold
    /\ UNCHANGED <<args, dataset, num_folds, oracle, fold_model_dir,
                 save_dir, fs, splitted_fold, train_set, val_set,
                 epoch, idx, model, optimizer, val_loss_items,
                 val_acc_items, val_seen, val_loss, val_acc,
                 best_val_acc, best_val_loss, early_stopping, log>>

fold_Setup ==
    /\ pc = "fold.setup"
    /\ save_dir' = increment_path(fs, fold_model_dir, args.name)
    /\ train_set' = Cardinality(splitted_fold.pairs[fold + 1].train_ids)
    /\ val_set' = Cardinality(splitted_fold.pairs[fold + 1].val_ids)
    /\ model' = NewModel(model)
    /\ optimizer' = NoOptimizer
    /\ fs' = Write(fs, save_dir', ConfigJson, args)
    /\ best_val_acc' = Rat(0, 1)
    /\ best_val_loss' = Inf
    /\ log' = <<>>
    /\ epoch' = 0
    /\ pc' = "fold.epoch"
    /\ UNCHANGED <<args, dataset, num_folds, oracle, fold_model_dir,
                 splitted_fold, fold, idx, val_loss_items,
                 val_acc_items, val_seen, val_loss, val_acc,
                 early_stopping>>

fold_Epoch ==
    /\ pc = "fold.epoch"
    /\ IF epoch < args.epochs
       THEN /\ model' = [model EXCEPT !.training = TRUE]
            /\ idx' = 0
            /\ pc' = "fold.batch"
       ELSE /\ pc' = "fold.next"
            /\ UNCHANGED <<model, idx>>
    /\ UNCHANGED <<args, dataset, num_folds, oracle, fold_model_dir,
                 save_dir, fs, splitted_fold, fold, train_set,
                 val_set, epoch, optimizer, val_loss_items,
                 val_acc_items, val_seen, val_loss, val_acc,
                 best_val_acc, best_val_loss, early_stopping, log>>

fold_Batch ==
    /\ pc = "fold.batch"
    /\ idx < LoaderLen(train_set, args.batch_size)
    /\ optimizer' = OptimizerStep(optimizer)
    /\ model' = [model EXCEPT !.params = @ + (optimizer'.step - optimizer.step)]
    /\ idx' = idx + 1
    /\ UNCHANGED <<args, dataset, num_folds, oracle, pc, fold_model_dir,
                 save_dir, fs, splitted_fold, fold, train_set,
                 val_set, epoch, val_loss_items, val_acc_items,
                 val_seen, val_loss, val_acc, best_val_acc,
                 best_val_loss, early_stopping, log>>

fold_SchedulerStep ==
    /\ pc = "fold.batch"
    /\ idx = LoaderLen(train_set, args.batch_size)
    /\ optimizer' = [optimizer EXCEPT !.sched = @ + 1]
    /\ model' = [model EXCEPT !.training = FALSE]
    /\ val_loss_items' = <<>>
    /\ val_acc_items' = <<>>
    /\ val_seen' = [examples |-> 0, correct |-> 0]
    /\ idx' = 0
    /\ pc' = "fold.val"
    /\ UNCHANGED <<args, dataset, num_folds, oracle, fold_model_dir,
                 save_dir, fs, splitted_fold, fold, train_set,
                 val_set, epoch, val_loss, val_acc, best_val_acc,
                 best_val_loss, early_stopping, log>>

fold_ValBatch ==
    /\ pc = "fold.val"
    /\ idx < LoaderLen(val_set, args.valid_batch_size)
    /\ \E acc_item \in oracle.corrects, loss_item \in oracle.losses :
          /\ acc_item <= args.valid_batch_size
          /\ val_loss_items' = Append(val_loss_items, loss_item)
          /\ val_acc_items' = Append(val_acc_items, acc_item)
          /\ val_seen' = [examples |-> val_seen.examples + args.valid_batch_size,
                          correct |-> val_seen.correct + acc_item]
    /\ IF idx = 0 /\ ~(GridN <= args.valid_batch_size)
       THEN pc' = "AssertionError" /\ idx' = idx
       ELSE pc' = pc /\ idx' = idx + 1
    /\ UNCHANGED <<args, dataset, num_folds, oracle, fold_model_dir,
                 save_dir, fs, splitted_fold, fold, train_set,
                 val_set, epoch, model, optimizer, val_loss, val_acc,
                 best_val_acc, best_val_loss, early_stopping, log>>

fold_Checkpoint ==
    /\ pc = "fold.val"
    /\ idx = LoaderLen(val_set, args.valid_batch_size)
    /\ val_loss' = ValLoss(val_loss_items, LoaderLen(val_set, args.valid_batch_size))
    /\ val_acc' = fold_ValAcc(val_acc_items, dataset.len, num_folds)
    /\ best_val_loss' = PyMin(best_val_loss, val_loss')
    /\ fs' = SaveCheckpoints(fs, save_dir, StateDict(model), Improved(val_acc', best_val_acc))
    /\ best_val_acc' = IF Improved(val_acc', best_val_acc) THEN val_acc' ELSE best_val_acc
    /\ log' = Append(log, LogEntry(fs', save_dir, val_acc', val_loss', val_seen, StateDict(model)))
    /\ epoch' = epoch + 1
    /\ pc' = "fold.epoch"
    /\ UNCHANGED <<args, dataset, num_folds, oracle, fold_model_dir,
                 save_dir, splitted_fold, fold, train_set, val_set,
                 idx, model, optimizer, val_loss_items,
                 val_acc_items, val_seen, early_stopping>>

\* -------------------------------------------------- train_with_cutmix()
\* if val_loss < best_val_loss
cutmix_Improved(loss, best) == RLess(loss, best)

cutmix_Setup ==
    /\ pc = "train_with_cutmix"
    /\ save_dir' = increment_path(fs, ModelDir, args.name)
    /\ train_set' = SplitDataset(dataset.len).train
    /\ val_set' = SplitDataset(dataset.len).val
    /\ model' = NewModel(model)
    /\ optimizer' = NoOptimizer
    /\ best_val_loss' = Inf
    /\ epoch' = 0
    /\ pc' = "cutmix.epoch"
    /\ UNCHANGED <<args, dataset, num_folds, oracle, fold_model_dir, fs,
                 splitted_fold, fold, idx, val_loss_items,
                 val_acc_items, val_seen, val_loss, val_acc,
                 best_val_acc, early_stopping, log>>

cutmix_Epoch ==
    /\ pc = "cutmix.epoch"
    /\ IF epoch < args.epochs
       THEN /\ model' = [model EXCEPT !.training = TRUE]
            /\ idx' = 0
            /\ pc' = "cutmix.batch"
       ELSE /\ pc' = "exit"
            /\ UNCHANGED <<model, idx>>
    /\ UNCHANGED <<args, dataset, num_folds, oracle, fold_model_dir,
                 save_dir, fs, splitted_fold, fold, train_set,
                 val_set, epoch, optimizer, val_loss_items,
                 val_acc_items, val_seen, val_loss, val_acc,
                 best_val_acc, best_val_loss, early_stopping, log>>

cutmix_Batch ==
    /\ pc = "cutmix.batch"
    /\ idx < LoaderLen(train_set, args.batch_size)
    /\ optimizer' = OptimizerStep(optimizer)
    /\ model' = [model EXCEPT !.params = @ + (optimizer'.step - optimizer.step)]
    /\ idx' = idx + 1
    /\ UNCHANGED <<args, dataset, num_folds, oracle, pc, fold_model_dir,
                 save_dir, fs, splitted_fold, fold, train_set,
                 val_set, epoch, val_loss_items, val_acc_items,
                 val_seen, val_loss, val_acc, best_val_acc,
                 best_val_loss, early_stopping, log>>

cutmix_SchedulerStep ==
    /\ pc = "cutmix.batch"
    /\ idx = LoaderLen(train_set, args.batch_size)
    /\ optimizer' = [optimizer EXCEPT !.sched = @ + 1]
    /\ model' = [model EXCEPT !.training = FALSE]
    /\ val_loss_items' = <<>>
    /\ val_acc_items' = <<>>
    /\ val_seen' = [examples |-> 0, correct |-> 0]
    /\ idx' = 0
    /\ pc' = "cutmix.val"
    /\ UNCHANGED <<args, dataset, num_folds, oracle, fold_model_dir,
                 save_dir, fs, splitted_fold, fold, train_set,
                 val_set, epoch, val_loss, val_acc, best_val_acc,
                 best_val_loss, early_stopping, log>>

\* the loop keeps the losses only; val_seen still counts what the network
\* got right on the batch
cutmix_ValBatch ==
    /\ pc = "cutmix.val"
    /\ idx < LoaderLen(val_set, args.valid_batch_size)
    /\ \E correct \in oracle.corrects, loss_item \in oracle.losses :
          /\ correct <= args.valid_batch_size
          /\ val_loss_items' = Append(val_loss_items, loss_item)
          /\ val_seen' = [examples |-> val_seen.examples + args.valid_batch_size,
                          correct |-> val_seen.correct + correct]
    /\ idx' = idx + 1
    /\ UNCHANGED <<args, dataset, num_folds, oracle, pc, fold_model_dir,
                 save_dir, fs, splitted_fold, fold, train_set,
                 val_set, epoch, model, optimizer, val_acc_items,
                 val_loss, val_acc, best_val_acc, best_val_loss,
                 early_stopping, log>>

cutmix_Checkpoint ==
    /\ pc = "cutmix.val"
    /\ idx = LoaderLen(val_set, args.valid_batch_size)
    /\ val_loss' = ValLoss(val_loss_items, LoaderLen(val_set, args.valid_batch_size))
    /\ fs' = SaveCheckpoints(fs, Cwd, StateDict(model), cutmix_Improved(val_loss', best_val_loss))
    /\ best_val_loss' = IF cutmix_Improved(val_loss', best_val_loss)
                        THEN val_loss' ELSE best_val_loss
    /\ log' = Append(log, LogEntry(fs', Cwd, NoRat, val_loss', val_seen, StateDict(model)))
    /\ epoch' = epoch + 1
    /\ pc' = "cutmix.epoch"
    /\ UNCHANGED <<args, dataset, num_folds, oracle, fold_model_dir,
                 save_dir, splitted_fold, fold, train_set, val_set,
                 idx, model, optimizer, val_loss_items,
                 val_acc_items, val_seen, val_acc, best_val_acc,
                 early_stopping>>

\* ------------------------------------------------------ the specification
Next ==
    \/ main_Dispatch
    \/ train_Setup
    \/ train_Epoch
    \/ train_Batch
    \/ train_SchedulerStep
    \/ train_ValBatch
    \/ train_Checkpoint
    \/ train_EarlyStop
    \/ fold_Create
    \/ fold_Next
    \/ fold_Setup
    \/ fold_Epoch
    \/ fold_Batch
    \/ fold_SchedulerStep
    \/ fold_ValBatch
    \/ fold_Checkpoint
    \/ cutmix_Setup
    \/ cutmix_Epoch
    \/ cutmix_Batch
    \/ cutmix_SchedulerStep
    \/ cutmix_ValBatch
    \/ cutmix_Checkpoint

Spec == Init /\ [][Next]_vars

\* ================================================================ claims
AccuracyLoop == args.mode \in {"plain", "k", "s"}
LastDir == IF args.mode = "cutmix" THEN Cwd ELSE save_dir
Epochs == 1..Len(log)

\* the accuracy of epoch e is strictly above 0 and above every earlier epoch's
StrictlyBest(e) ==
    /\ RLess(Rat(0, 1), log[e].val_acc)
    /\ \A j \in 1..(e - 1) : RLess(log[j].val_acc, log[e].val_acc)

ExampleAccuracies == <<10, 15, 15, 20, 18>>

\* C1: in train and in every fold of train_with_fold, best.pth is written at
\* the end of an epoch exactly when that epoch's validation accuracy is
\* strictly greater than 0 and than the accuracy of every earlier epoch of the
\* run / fold; on the accuracies 0.10, 0.15, 0.15, 0.20, 0.18 it is written
\* at epochs 0, 1 and 3 only.
C1_BestIffStrictlyHigher ==
    AccuracyLoop =>
        /\ \A e \in Epochs : log[e].best <=> StrictlyBest(e)
        /\ (/\ Len(log) = 5
            /\ \A e \in Epochs : log[e].val_acc = Rat(ExampleAccuracies[e], 100))
           => {e \in Epochs : log[e].best} = {1, 2, 4}

C1_Witness ==
    /\ args.mode = "plain"
    /\ Len(log) = 5
    /\ \A e \in Epochs : log[e].val_acc = Rat(ExampleAccuracies[e], 100)
    /\ {log[e].epoch : e \in {e \in Epochs : log[e].best}} = {0, 1, 3}

\* C2: in train, train_with_fold and train_with_cutmix every finished epoch
\* wrote last.pth, whatever its metrics were, and once an epoch is finished
\* last.pth holds the parameters the model has at the end of the most recently
\* finished epoch.
C2_LastEveryEpoch ==
    /\ \A e \in Epochs : log[e].last
    /\ Len(log) > 0 =>
          /\ <<LastDir, LastPth>> \in DOMAIN fs
          /\ fs[<<LastDir, LastPth>>] = log[Len(log)].state
          /\ pc \in {"train.stop", "train.epoch", "fold.epoch", "fold.next",
                     "fold.setup", "cutmix.epoch", "exit"}
                => fs[<<LastDir, LastPth>>] = StateDict(model)

C2_Witness ==
    /\ Len(log) = 2
    /\ ~log[2].best
    /\ fs[<<LastDir, LastPth>>] = log[2].state
    /\ log[2].state # log[1].state

\* the network got more examples right in epoch e than in any earlier epoch
CorrectBest(e) ==
    /\ log[e].correct > 0
    /\ \A j \in 1..(e - 1) : log[j].correct < log[e].correct

LossBest(e) == \A j \in 1..(e - 1) : RLess(log[e].val_loss, log[j].val_loss)

BestLossIsMin ==
    /\ \E e \in Epochs : best_val_loss = log[e].val_loss
    /\ \A e \in Epochs : ~RLess(log[e].val_loss, best_val_loss)

\* C3 as stated: in every variant, train_with_cutmix included, best.pth is
\* overwritten exactly when the epoch's validation accuracy is the highest so
\* far, whatever the validation losses are.
C3_BestFollowsAccuracyEverywhere ==
    \A e \in Epochs : log[e].best <=> CorrectBest(e)

\* C3 as amended: best_val_loss is the minimum validation loss of the epochs
\* finished so far; in train and train_with_fold best.pth is overwritten exactly
\* when the epoch's accuracy is the highest so far, whatever the losses are; in
\* train_with_cutmix it is overwritten exactly when the epoch's validation loss
\* is strictly below that of every earlier epoch.
C3_BestFollowsAccuracyOrLoss ==
    /\ Len(log) > 0 => BestLossIsMin
    /\ AccuracyLoop => \A e \in Epochs : log[e].best <=> CorrectBest(e)
    /\ args.mode = "cutmix" => \A e \in Epochs : log[e].best <=> LossBest(e)

C3_Witness ==
    /\ args.mode = "plain"
    /\ Len(log) = 2
    /\ log[1].best
    /\ RLess(log[2].val_loss, log[1].val_loss)
    /\ log[2].correct = log[1].correct
    /\ ~log[2].best
    /\ best_val_loss = log[2].val_loss

\* the calls made on the stopper so far are the losses of the first `calls` epochs
ImprovingCall(i) == \A j \in 1..(i - 1) : RLess(log[i].val_loss, log[j].val_loss)
TrailingFailures(n) == n - SetMax({0} \cup {i \in 1..n : ImprovingCall(i)})

\* C4: in train with patience > 0 the stopper's counter is the number of
\* consecutive calls, up to the latest one, whose loss was not strictly below
\* the lowest loss submitted before (0 after an improving call), and the
\* stopper is stopped exactly when that number has reached the patience, which
\* it had not at any earlier call.
C4_StoppedAfterPatienceFailures ==
    (args.mode = "plain" /\ args.early_stopping > 0) =>
        LET n == early_stopping.calls
        IN  /\ n <= Len(log)
            /\ early_stopping.counter = TrailingFailures(n)
            /\ early_stopping.early_stop <=> TrailingFailures(n) >= args.early_stopping
            /\ \A m \in 1..(n - 1) : TrailingFailures(m) < args.early_stopping

C4_Witness ==
    /\ args.mode = "plain"
    /\ args.early_stopping = 2
    /\ early_stopping.calls = 5
    /\ early_stopping.early_stop
    /\ ~ImprovingCall(2)
    /\ ImprovingCall(3)

ExampleLosses == <<90, 80, 85, 86, 87>>
SubmittedExample(n) ==
    /\ args.mode = "plain"
    /\ args.early_stopping = 2
    /\ early_stopping.calls = n
    /\ n <= Len(log)
    /\ \A i \in 1..n : log[i].val_loss = Rat(ExampleLosses[i], 1)

\* C5 as stated: with patience 2 and the losses 0.9, 0.8, 0.85, 0.86, 0.87 the
\* stopper is stopped at the 5th call and not before.
C5_StoppedAtFifthCall ==
    \A n \in 1..5 : SubmittedExample(n) => (early_stopping.early_stop <=> n = 5)

\* C5 as amended: with patience 2 and the losses 0.9, 0.8, 0.85, 0.86 submitted
\* one per call, the stopper is stopped at the 4th call, is still watching
\* after the 3rd, and is given no 5th loss.
C5_StoppedAtFourthCall ==
    \A n \in 1..5 : SubmittedExample(n) => (n <= 4 /\ (early_stopping.early_stop <=> n = 4))

C5_Witness ==
    /\ SubmittedExample(4)
    /\ early_stopping.early_stop
    /\ pc = "exit"

TrainLen == LoaderLen(train_set, args.batch_size)

\* C6 as stated: train ends with fewer than args.epochs epochs run exactly when
\* patience > 0 and the stopper has signalled stop.
C6_EndsEarlyIffStopped ==
    (args.mode = "plain" /\ pc = "exit") =>
        (Len(log) < args.epochs
            <=> (args.early_stopping > 0 /\ early_stopping.early_stop))

\* C6 as amended: train ends with fewer than args.epochs epochs run exactly when
\* patience > 0 and the stopper has signalled stop at the end of an epoch before
\* the last budgeted one; with patience <= 0 the stopper is never called and
\* args.epochs epochs run; once the stopper has signalled stop at the end of an
\* epoch the program has ended, with no optimizer step, scheduler step,
\* validation pass or checkpoint write after that epoch.
C6_EndsEarlyIffStoppedBeforeLast ==
    args.mode = "plain" =>
        /\ pc = "exit" =>
              (Len(log) < args.epochs
                  <=> /\ args.early_stopping > 0
                      /\ early_stopping.early_stop
                      /\ early_stopping.calls < args.epochs)
        /\ args.early_stopping <= 0 =>
              /\ early_stopping.calls = 0
              /\ pc = "exit" => Len(log) = args.epochs
        /\ early_stopping.early_stop =>
              /\ pc = "exit"
              /\ Len(log) = early_stopping.calls
              /\ optimizer.step = early_stopping.calls * TrainLen
              /\ optimizer.sched = early_stopping.calls
              /\ fs[<<save_dir, LastPth>>] = log[early_stopping.calls].state

C6_Witness ==
    /\ args.mode = "plain"
    /\ pc = "exit"
    /\ early_stopping.early_stop
    /\ Len(log) = 2
    /\ args.epochs = 3

\* C7: in fold mode with patience > 0, no epoch of a fold is run after an epoch
\* at which the fold's validation loss had failed to improve for `patience`
\* consecutive epochs.
C7_FoldStopsAfterPatienceFailures ==
    (args.mode \in {"k", "s", "g"} /\ args.early_stopping > 0) =>
        \A n \in 1..(Len(log) - 1) : TrailingFailures(n) < args.early_stopping

\* C8: in train and train_with_fold the validation accuracy of an epoch is the
\* number of correct predictions divided by the number of validation examples
\* scored in that epoch.
C8_AccuracyOverScored ==
    AccuracyLoop =>
        \A e \in Epochs : REq(log[e].val_acc, Rat(log[e].correct, log[e].scored))

\* C9: in every variant each train batch makes one zero_grad and one optimizer
\* step, the parameters change with the optimizer steps only, none is made
\* from the start of the validation pass to the checkpoint writes, and the
\* parameters in best.pth and last.pth are those left by the last train batch
\* of the epoch that wrote them.
C9_OneStepPerTrainBatch ==
    /\ optimizer.zero_grad = optimizer.step
    /\ model.params = optimizer.step
    /\ pc \in {"train.batch", "fold.batch", "cutmix.batch"}
          => optimizer.step = Len(log) * TrainLen + idx
    /\ pc \in {"train.val", "fold.val", "cutmix.val", "AssertionError"}
          => optimizer.step = (Len(log) + 1) * TrainLen
    /\ pc \in {"train.stop", "train.epoch", "fold.epoch", "cutmix.epoch", "exit"}
          => optimizer.step = Len(log) * TrainLen
    /\ \A e \in Epochs : log[e].state = [id |-> model.id, params |-> e * TrainLen]
    /\ \A file \in {BestPth, LastPth} :
          (/\ Len(log) > 0
           /\ <<LastDir, file>> \in DOMAIN fs
           /\ fs[<<LastDir, file>>].id = model.id)
              => \E e \in Epochs : fs[<<LastDir, file>>] = log[e].state

C9_Witness ==
    /\ pc \in {"train.val", "fold.val", "cutmix.val"}
    /\ idx = 1
    /\ TrainLen = 2
    /\ Len(log) = 1
    /\ optimizer.step = 4
    /\ fs[<<LastDir, LastPth>>].params = 2

\* --------------------------------------------- the fold planner on its own
\* train_with_fold in mode "k" on every dataset of 2..MaxN examples, every
\* fold count and every outcome of the seeded shuffle; the body of the fold
\* loop is one step that leaves the generator alone.
fold_Body ==
    /\ pc = "fold.setup"
    /\ pc' = "fold.next"
    /\ UNCHANGED <<args, dataset, num_folds, oracle, fold_model_dir,
                 save_dir, fs, splitted_fold, fold, train_set,
                 val_set, epoch, idx, model, optimizer,
                 val_loss_items, val_acc_items, val_seen, val_loss,
                 val_acc, best_val_acc, best_val_loss,
                 early_stopping, log>>

InitFold ==
    /\ \E n \in 2..MaxN, k \in 2..MaxFolds :
          /\ k <= n
          /\ \E shuffled \in Shuffles(n) : dataset = Dataset(n, shuffled)
          /\ num_folds = k
    /\ args = Args("k", 1, 0, 16, 16)
    /\ oracle = GeneralOracle
    /\ pc = "main"
    /\ fs = <<>>
    /\ InitRest

NextFold ==
    \/ main_Dispatch
    \/ fold_Create
    \/ fold_Next
    \/ fold_Body

SpecFold == InitFold /\ [][NextFold]_vars

\* C10: in mode "k" the generator holds exactly num_folds pairs, the loop takes
\* every one of them, the validation sets are pairwise disjoint and cover
\* 0..N-1, and the train and validation sets of a fold are disjoint.
C10_KFoldPartition ==
    (args.mode = "k" /\ splitted_fold.bound) =>
        LET P == splitted_fold.pairs
            all == 0..(dataset.len - 1)
        IN  /\ Len(P) = num_folds
            /\ \A i, j \in 1..Len(P) : i # j => P[i].val_ids \cap P[j].val_ids = {}
            /\ UNION {P[i].val_ids : i \in 1..Len(P)} = all
            /\ \A i \in 1..Len(P) :
                  /\ P[i].train_ids \cap P[i].val_ids = {}
                  /\ P[i].train_ids \subseteq all
            /\ fold < num_folds
            /\ pc = "exit" => fold = num_folds - 1

C10_Witness ==
    /\ args.mode = "k"
    /\ pc = "exit"
    /\ dataset.len = 5
    /\ num_folds = 3
    /\ fold = 2
    /\ dataset.shuffled # Identity(5)
    /\ Cardinality(splitted_fold.pairs[1].val_ids) = 2
    /\ Cardinality(splitted_fold.pairs[3].val_ids) = 1

\* the subject an example belongs to: two consecutive examples per subject
GroupKeys(ids) == {i \div 2 : i \in ids}

\* C11: in mode "g" train_with_fold binds a fold generator of num_folds pairs,
\* the loop trains on every one of them and ends normally, and in every pair no
\* group key is on both the train side and the validation side.
C11_GroupedFoldsTrain ==
    args.mode = "g" =>
        /\ pc # "NameError"
        /\ pc \in {"fold.next", "fold.setup", "fold.epoch", "fold.batch",
                   "fold.val", "exit"}
              => /\ splitted_fold.bound
                 /\ Len(splitted_fold.pairs) = num_folds
                 /\ \A i \in 1..Len(splitted_fold.pairs) :
                       GroupKeys(splitted_fold.pairs[i].train_ids)
                           \cap GroupKeys(splitted_fold.pairs[i].val_ids) = {}
        /\ pc = "exit" => fold = num_folds - 1

KnownModes == {"plain", "k", "s", "g", "cutmix"}

\* the positions at which the interpreter has died of an uncaught error:
\* "exit" is the end of the script and "SystemExit" is exit() without a
\* status, both of which end the process with status 0
ErrorOutcomes == {"AssertionError", "NameError"}

\* C12: with a mode outside plain, k, s, g, cutmix, the entry point and
\* train_with_fold both end in an error outcome, never in a normal end of the
\* program, and no optimizer step and no checkpoint write has been made.
C12_UnknownModeFails ==
    args.mode \notin KnownModes =>
        /\ pc \in {"main", "train_with_fold"} \cup ErrorOutcomes
        /\ optimizer.step = 0
        /\ \A p \in DOMAIN fs : p[2] \notin {BestPth, LastPth}

FoldModes == {"k", "s", "g"}
FoldLoop == {"fold.epoch", "fold.batch", "fold.val"}

\* the highest accuracy of the epochs this fold has finished, 0 if none is above 0
FoldBest ==
    IF \E e \in Epochs : StrictlyBest(e)
    THEN log[CHOOSE e \in Epochs :
                 \A j \in Epochs : ~RLess(log[e].val_acc, log[j].val_acc)].val_acc
    ELSE Rat(0, 1)

\* C13: in train_with_fold, at the first epoch of every fold best_val_acc is 0,
\* best_val_loss is +infinity, and the model, the optimizer and the scheduler
\* are objects made for this fold on which nothing has been called yet; inside
\* a fold best_val_acc is the highest accuracy of this fold's own epochs, so
\* best.pth is written exactly at the epochs whose accuracy is above 0 and
\* above every earlier epoch of the same fold, whatever earlier folds produced.
C13_FoldStateFresh ==
    (args.mode \in FoldModes /\ pc \in FoldLoop) =>
        /\ model.id = fold + 1
        /\ (pc = "fold.epoch" /\ epoch = 0) =>
              /\ best_val_acc = Rat(0, 1)
              /\ best_val_loss = Inf
              /\ model.params = 0
              /\ optimizer = NoOptimizer
              /\ log = <<>>
        /\ optimizer.sched \in {Len(log), Len(log) + 1}
        /\ REq(best_val_acc, FoldBest)
        /\ \A e \in Epochs : log[e].best <=> StrictlyBest(e)

\* the second fold writes best.pth at its lowest positive accuracy, after the
\* first fold had written its own best.pth
C13_Witness ==
    /\ args.mode = "k"
    /\ fold = 1
    /\ pc = "fold.epoch"
    /\ Len(log) = 1
    /\ log[1].best
    /\ log[1].correct = 8
    /\ <<Child(fold_model_dir, args.name, 0), BestPth>> \in DOMAIN fs
    /\ fs[<<Child(fold_model_dir, args.name, 0), BestPth>>].id = 1
    /\ fs[<<save_dir, BestPth>>].id = 2

EpochLoop ==
    {"train.epoch", "train.batch", "train.val", "train.stop",
     "fold.epoch", "fold.batch", "fold.val",
     "cutmix.epoch", "cutmix.batch", "cutmix.val"}

\* C14: in train, in every fold of train_with_fold and in train_with_cutmix,
\* from the first epoch on the directory returned by increment_path holds
\* config.json, every best.pth and last.pth on disk is in a directory that
\* increment_path returned (below the model directory), and after a finished
\* epoch last.pth is in the run's directory.
C14_CheckpointsInRunDir ==
    pc \in EpochLoop =>
        /\ save_dir # NoDir
        /\ <<save_dir, ConfigJson>> \in DOMAIN fs
        /\ \A p \in DOMAIN fs :
              p[2] \in {BestPth, LastPth} =>
                  /\ IsPrefix(ModelDir, p[1])
                  /\ <<p[1], ConfigJson>> \in DOMAIN fs
        /\ Len(log) > 0 => <<save_dir, LastPth>> \in DOMAIN fs

\* the directories increment_path is asked for: the run's directory and the
\* fold directory below the model directory, the fold's directory below that
Requests ==
    {<<ModelDir, args.name>>, <<ModelDir, "fold_model">>}
        \cup (IF fold_model_dir = NoDir THEN {} ELSE {<<fold_model_dir, args.name>>})

\* C15: on every file system the program reaches, increment_path (exist_ok
\* false) returns a path that does not exist: the requested path itself if it
\* does not exist, otherwise the requested path with a number above the number
\* of every existing sibling of that name; and every fold of a train_with_fold
\* run starts in a directory that holds nothing but the config.json the fold
\* has just written, so the folds' directories are pairwise distinct.
C15_IncrementPathFresh ==
    /\ \A r \in Requests :
          LET d == increment_path(fs, r[1], r[2])
          IN  /\ ~Exists(fs, d)
              /\ ~Exists(fs, Child(r[1], r[2], 0)) => d = Child(r[1], r[2], 0)
              /\ Exists(fs, Child(r[1], r[2], 0)) =>
                    \A x \in Siblings(fs, r[1], r[2]) : x[Len(x)][2] < d[Len(d)][2]
    /\ (args.mode \in FoldModes /\ pc = "fold.epoch" /\ epoch = 0) =>
          \A p \in DOMAIN fs : p[1] = save_dir => p[2] = ConfigJson

ValLen == LoaderLen(val_set, args.valid_batch_size)
StopperCalls(n) == IF args.early_stopping > 0 THEN n ELSE 0

C17_AccuracyInUnitInterval ==
    AccuracyLoop =>
        \A e \in Epochs :
            /\ ~RLess(log[e].val_acc, Rat(0, 1))
            /\ ~RLess(Rat(1, 1), log[e].val_acc)

\* the earliest finished epoch whose accuracy no other finished epoch exceeds
EarliestMax ==
    SetMin({e \in Epochs : \A j \in Epochs : ~RLess(log[e].val_acc, log[j].val_acc)})

\* C18: in train and train_with_fold, once an epoch is finished and last.pth is
\* in save_dir, best.pth is in save_dir too and holds the parameters of the
\* earliest epoch that reached the highest validation accuracy so far.
C18_BestWheneverLast ==
    (AccuracyLoop /\ Len(log) > 0 /\ <<save_dir, LastPth>> \in DOMAIN fs) =>
        /\ <<save_dir, BestPth>> \in DOMAIN fs
        /\ fs[<<save_dir, BestPth>>] = log[EarliestMax].state

====
